---- MODULE Spec2Model ----
(***************************************************************************)
(* Model of the hierarchical text reduction of src/generate-summaries.py:  *)
(* determine_max_length, summarize_in_chunks and summarize_text, with the  *)
(* summarizer pipeline as an environment that answers every call with an   *)
(* arbitrary string or raises.                                             *)
(*                                                                         *)
(* A string is a sequence of one-character strings.  The only whitespace   *)
(* character of the model is the space.  Every call the program makes of   *)
(* summarize_in_chunks is in tail position (lines 99 and 148-154), so the  *)
(* model keeps the executing call only, and of the stack its height.  The  *)
(* program puts no bound on the depth of the recursion; the interpreter    *)
(* does: every call of summarize_in_chunks is a nested Python call, and    *)
(* the call the stack has no room left under raises RecursionError at its  *)
(* own first call, of determine_max_length (line 75).  The model scales    *)
(* sys.getrecursionlimit() down to MaxDepth nested calls.                  *)
(***************************************************************************)
EXTENDS Integers, Sequences, FiniteSets, TLC

\* ------------------------------------------------------------------ bounds
\* Longest text handed to an entry point.
MaxInput == 3
\* Number of oracle calls whose input and output are kept in the log `calls`;
\* the counter `ncalls` saturates at MaxCalls + 1.
MaxCalls == 4
\* The nested calls the interpreter's stack has room for
\* (sys.getrecursionlimit(), scaled down): the call at depth MaxDepth can
\* return without a call of its own, but cannot call determine_max_length.
MaxDepth == 3

\* --------------------------------------------------------- program constants
\* The min_length summarize_text passes on every call it makes.
MIN_LENGTH_50 == 50

\* ------------------------------------------------------------------ strings
Chars == {"a", "b", " "}

IsSpace(c) == c = " "

Texts == UNION {[1..n -> Chars] : n \in 0..MaxInput}

\* What the summarizer may answer.
Outputs == {<<>>, <<" ">>, <<"a">>}

\* The literal "No content to summarize." (kept as one opaque token: the
\* program only returns it).
SENTINEL == <<"No content to summarize.">>

Min2(x, y) == IF x <= y THEN x ELSE y
Max2(x, y) == IF x >= y THEN x ELSE y

SetMin(S) == CHOOSE x \in S : \A y \in S : x <= y
SetMax(S) == CHOOSE x \in S : \A y \in S : x >= y

\* A bug of strip: only the leading whitespace is dropped (lstrip).
strip_left_only(s) ==
  LET keep == {j \in 1..Len(s) : s[j] # " "}
  IN  IF keep = {} THEN <<>>
      ELSE SubSeq(s, CHOOSE x \in keep : \A y \in keep : x <= y, Len(s))

\* A bug of strip: the text is used as it came.
strip_forgotten(s) == s

\* str.strip(): drop leading and trailing whitespace.
strip(s) ==
  LET keep == {j \in 1..Len(s) : ~IsSpace(s[j])}
  IN  IF keep = {} THEN <<>> ELSE SubSeq(s, SetMin(keep), SetMax(keep))

\* len(text.split()): the number of maximal runs of non-whitespace.
word_count(s) ==
  Cardinality({j \in 1..Len(s) : ~IsSpace(s[j]) /\ (j = 1 \/ IsSpace(s[j-1]))})

\* A bug of determine_max_length: the floor at min_length is left out.
determine_max_length_no_floor(text, default_max, min_length) ==
  IF word_count(text) <= default_max THEN word_count(text) ELSE default_max

\* min(default_max, max(word_count, min_length))
determine_max_length(text, default_max, min_length) ==
  Min2(default_max, Max2(word_count(text), min_length))

\* A bug of range: the last, shorter step is left out.
range_whole_steps(start, stop, step) ==
  LET n == IF step > 0 /\ stop > start THEN (stop - start) \div step ELSE 0
  IN  [j \in 1..n |-> start + (j - 1) * step]

\* range(start, stop, step) for step # 0, as the sequence of its values.
range(start, stop, step) ==
  LET n == IF step > 0 /\ stop > start
             THEN (stop - start + step - 1) \div step
             ELSE IF step < 0 /\ stop < start
                    THEN (start - stop - step - 1) \div (0 - step)
                    ELSE 0
  IN  [j \in 1..n |-> start + (j - 1) * step]

\* A bug of slice: the end index is taken as inclusive.
slice_inclusive(text, lo, hi) == SubSeq(text, lo + 1, Min2(hi + 1, Len(text)))

\* text[lo:hi] for 0 <= lo, with hi clipped to len(text).
slice(text, lo, hi) == SubSeq(text, lo + 1, Min2(hi, Len(text)))

\* [text[i:i+chunk_size] for i in range(0, len(text), chunk_size)]
split_chunks(text, chunk_size) ==
  LET starts == range(0, Len(text), chunk_size)
  IN  [j \in 1..Len(starts) |-> slice(text, starts[j], starts[j] + chunk_size)]

\* A bug of join: the separator is the empty string.
RECURSIVE join_without_separator(_)
join_without_separator(parts) ==
  IF parts = <<>> THEN <<>>
  ELSE parts[1] \o join_without_separator(Tail(parts))

\* " ".join(parts)
RECURSIVE join(_)
join(parts) ==
  IF parts = <<>> THEN <<>>
  ELSE IF Len(parts) = 1 THEN parts[1]
  ELSE parts[1] \o <<" ">> \o join(Tail(parts))

\* A bug of the base-case test: a text of exactly chunk_size is chunked.
fits_strictly(text, chunk_size) == Len(text) < chunk_size

\* len(text) <= chunk_size
fits(text, chunk_size) == Len(text) <= chunk_size

\* RecursionError: the frame under `nested` calls of the program's functions
\* has no room left for a call of determine_max_length.
stack_overflow(nested) == nested >= MaxDepth

\* A bug of the recursion test: a combined text one character too long is
\* summarized in one call.
still_large_by_two(combined_text, chunk_size) == Len(combined_text) > chunk_size + 1

\* A bug of the recursion test: a combined text of exactly chunk_size recurses.
still_large_or_equal(combined_text, chunk_size) == Len(combined_text) >= chunk_size

\* len(combined_text) > chunk_size
still_large(combined_text, chunk_size) == Len(combined_text) > chunk_size

\* ------------------------------------------------------------------- state
VARIABLES
  args,            \* the arguments of the top-level call
  frame,           \* the arguments of the call that is executing
  pc,              \* "enter", "loop", "calling", "done", "failed"
  text_chunks,     \* the slices of the executing call
  i,               \* index of the slice the for loop is at (from 1)
  chunk_summaries, \* the summaries collected by the for loop
  call,            \* the oracle call in flight when pc = "calling"
  calls,           \* log of the first MaxCalls finished oracle calls
  last,            \* the oracle call that finished last
  ncalls,          \* number of oracle calls issued, saturating
  depth,           \* nested calls (lines 99, 148) under the top-level call
  result,          \* the value returned to the top-level caller
  returned_at,     \* the return statement that produced it
  error            \* the exception that reached the top-level caller

vars == <<args, frame, pc, text_chunks, i, chunk_summaries, call, calls, last,
          ncalls, depth, result, returned_at, error>>

ChunkSizes == {-1, 0, 1, 2, 3}
DefaultMaxLengths == {0, 2}
MinLengths == {-1, 1, 3}
SummaryLengths == {-1, 60}

Frame_A(text, chunk_size, default_max_length, min_length) ==
  [fn |-> "summarize_in_chunks", text |-> text, chunk_size |-> chunk_size,
   default_max_length |-> default_max_length, min_length |-> min_length]

Frame_B(text, chunk_size, intermediate_summary_length, final_summary_length) ==
  [fn |-> "summarize_text", text |-> text, chunk_size |-> chunk_size,
   intermediate_summary_length |-> intermediate_summary_length,
   final_summary_length |-> final_summary_length]

TopCalls ==
  {Frame_A(t, c, d, m) : t \in Texts, c \in ChunkSizes,
                         d \in DefaultMaxLengths, m \in MinLengths}
  \cup
  {Frame_B(t, c, d, f) : t \in Texts, c \in ChunkSizes,
                         d \in SummaryLengths, f \in SummaryLengths}

NoCall == [text |-> <<>>, max_length |-> 0, min_length |-> 0,
           default_max |-> 0, site |-> "none"]

NoneFinished == [text |-> <<>>, max_length |-> 0, min_length |-> 0,
                 site |-> "none", ok |-> TRUE, out |-> <<>>]

Init ==
  /\ args \in TopCalls
  /\ frame = args
  /\ pc = "enter"
  /\ text_chunks = <<>>
  /\ i = 1
  /\ chunk_summaries = <<>>
  /\ call = NoCall
  /\ calls = <<>>
  /\ last = NoneFinished
  /\ ncalls = 0
  /\ depth = 0
  /\ result = <<>>
  /\ returned_at = "none"
  /\ error = "none"

\* ---------------------------------------------------------------- helpers
\* summarizer(text, max_length=..., min_length=..., do_sample=False) is entered.
Issue(text, default_max, min_length, site) ==
  /\ call' = [text |-> text,
              max_length |-> determine_max_length(text, default_max, min_length),
              min_length |-> min_length,
              default_max |-> default_max,
              site |-> site]
  /\ ncalls' = Min2(ncalls + 1, MaxCalls + 1)
  /\ pc' = "calling"

\* A return statement of the executing call; its value goes to the top-level
\* caller.
Return(value, where) ==
  /\ result' = value
  /\ returned_at' = where
  /\ pc' = "done"

\* The call in flight finishes: it is logged.
Finish(ok, out) ==
  LET entry == [text |-> call.text, max_length |-> call.max_length,
                min_length |-> call.min_length, site |-> call.site,
                ok |-> ok, out |-> out]
  IN  /\ last' = entry
      /\ calls' = IF Len(calls) < MaxCalls THEN Append(calls, entry) ELSE calls
      /\ call' = NoCall

\* A bug of the delegation: the final pass is planned against the
\* intermediate length.
final_pass_intermediate(combined_summary_input) ==
  Frame_A(combined_summary_input, frame.chunk_size,
          frame.intermediate_summary_length, MIN_LENGTH_50)

\* summarize_in_chunks(combined_summary_input, chunk_size=chunk_size,
\*                     default_max_length=final_summary_length, min_length=50)
final_pass(combined_summary_input) ==
  Frame_A(combined_summary_input, frame.chunk_size,
          frame.final_summary_length, MIN_LENGTH_50)

\* ---------------------------------------------------------------- actions
\* summarize_in_chunks, from its first line to its first oracle call, return,
\* or the start of its for loop.
Enter_summarize_in_chunks ==
  /\ pc = "enter"
  /\ frame.fn = "summarize_in_chunks"
  /\ LET text == strip(frame.text)
     IN  /\ frame' = [frame EXCEPT !.text = text]
         /\ IF text = <<>>
              THEN /\ Return(SENTINEL, "sentinel_in_chunks")
                   /\ UNCHANGED <<text_chunks, i, chunk_summaries, call, ncalls, error>>
            ELSE IF stack_overflow(depth)
              THEN \* maximum recursion depth exceeded (line 75)
                   /\ pc' = "failed"
                   /\ error' = "RecursionError"
                   /\ UNCHANGED <<text_chunks, i, chunk_summaries, call, ncalls,
                                  result, returned_at>>
            ELSE IF fits(text, frame.chunk_size)
              THEN /\ Issue(text, frame.default_max_length, frame.min_length, "base")
                   /\ UNCHANGED <<text_chunks, i, chunk_summaries, result, returned_at, error>>
            ELSE IF frame.chunk_size = 0
              THEN \* range() arg 3 must not be zero
                   /\ pc' = "failed"
                   /\ error' = "ValueError"
                   /\ UNCHANGED <<text_chunks, i, chunk_summaries, call, ncalls,
                                  result, returned_at>>
            ELSE /\ text_chunks' = split_chunks(text, frame.chunk_size)
                 /\ chunk_summaries' = <<>>
                 /\ i' = 1
                 /\ pc' = "loop"
                 /\ UNCHANGED <<call, ncalls, result, returned_at, error>>
  /\ UNCHANGED <<args, calls, last, depth>>

\* summarize_text, from its first line to the start of its for loop.
Enter_summarize_text ==
  /\ pc = "enter"
  /\ frame.fn = "summarize_text"
  /\ LET text == strip(frame.text)
     IN  /\ frame' = [frame EXCEPT !.text = text]
         /\ IF text = <<>>
              THEN /\ Return(SENTINEL, "sentinel_text_empty")
                   /\ UNCHANGED <<text_chunks, i, chunk_summaries, error>>
            ELSE IF frame.chunk_size = 0
              THEN \* range() arg 3 must not be zero
                   /\ pc' = "failed"
                   /\ error' = "ValueError"
                   /\ UNCHANGED <<text_chunks, i, chunk_summaries, result, returned_at>>
            ELSE /\ text_chunks' = split_chunks(text, frame.chunk_size)
                 /\ chunk_summaries' = <<>>
                 /\ i' = 1
                 /\ pc' = "loop"
                 /\ UNCHANGED <<result, returned_at, error>>
  /\ UNCHANGED <<args, call, calls, last, ncalls, depth>>

\* One iteration of `for chunk in text_chunks`, up to its oracle call: the
\* chunk is stripped, and skipped when nothing is left of it.
NextChunk ==
  /\ pc = "loop"
  /\ i <= Len(text_chunks)
  /\ LET chunk == strip(text_chunks[i])
     IN  IF chunk # <<>>
           THEN /\ IF frame.fn = "summarize_in_chunks"
                     THEN Issue(chunk, frame.default_max_length, frame.min_length, "chunk")
                     ELSE Issue(chunk, frame.intermediate_summary_length, MIN_LENGTH_50, "chunk")
                /\ UNCHANGED i
           ELSE /\ i' = i + 1
                /\ UNCHANGED <<pc, call, ncalls>>
  /\ UNCHANGED <<args, frame, text_chunks, chunk_summaries, calls, last, depth,
                 result, returned_at, error>>

\* summarize_in_chunks after its for loop: join, then recurse or make the
\* final call.
Combine_summarize_in_chunks ==
  /\ pc = "loop"
  /\ i > Len(text_chunks)
  /\ frame.fn = "summarize_in_chunks"
  /\ LET combined_text == join(chunk_summaries)
     IN  IF still_large(combined_text, frame.chunk_size)
           THEN /\ frame' = Frame_A(combined_text, frame.chunk_size,
                                    frame.default_max_length, frame.min_length)
                /\ depth' = depth + 1
                /\ pc' = "enter"
                /\ text_chunks' = <<>>
                /\ chunk_summaries' = <<>>
                /\ i' = 1
                /\ UNCHANGED <<call, ncalls>>
           ELSE /\ Issue(combined_text, frame.default_max_length, frame.min_length, "final")
                /\ UNCHANGED <<frame, text_chunks, chunk_summaries, i, depth>>
  /\ UNCHANGED <<args, calls, last, result, returned_at, error>>

\* summarize_text after its for loop: the sentinel when no chunk was
\* summarized, else the call of summarize_in_chunks on the joined summaries.
Combine_summarize_text ==
  /\ pc = "loop"
  /\ i > Len(text_chunks)
  /\ frame.fn = "summarize_text"
  /\ IF chunk_summaries = <<>>
       THEN /\ Return(SENTINEL, "sentinel_text_no_summaries")
            /\ UNCHANGED <<frame, text_chunks, chunk_summaries, i, depth>>
       ELSE /\ frame' = final_pass(join(chunk_summaries))
            /\ depth' = depth + 1
            /\ pc' = "enter"
            /\ text_chunks' = <<>>
            /\ chunk_summaries' = <<>>
            /\ i' = 1
            /\ UNCHANGED <<result, returned_at>>
  /\ UNCHANGED <<args, call, calls, last, ncalls, error>>

\* A bug of the use of a summary: an empty one is replaced by the sentinel.
Resume_sentinel_for_blank(out) ==
  IF call.site = "chunk"
    THEN /\ chunk_summaries' = Append(chunk_summaries, out)
         /\ i' = i + 1
         /\ pc' = "loop"
         /\ UNCHANGED <<result, returned_at>>
    ELSE /\ Return(IF strip(out) = <<>> THEN SENTINEL ELSE out, call.site)
         /\ UNCHANGED <<chunk_summaries, i>>

\* What the program does with the summary_text of the call in flight: a
\* chunk's summary is appended and the loop goes on, any other is returned.
Resume(out) ==
  IF call.site = "chunk"
    THEN /\ chunk_summaries' = Append(chunk_summaries, out)
         /\ i' = i + 1
         /\ pc' = "loop"
         /\ UNCHANGED <<result, returned_at>>
    ELSE /\ Return(out, call.site)
         /\ UNCHANGED <<chunk_summaries, i>>

\* The summarizer answers the call in flight.
OracleReturn ==
  /\ pc = "calling"
  /\ \E out \in Outputs :
       /\ Finish(TRUE, out)
       /\ Resume(out)
  /\ UNCHANGED <<args, frame, text_chunks, ncalls, depth, error>>

\* A bug of the error path: a chunk whose call raised is skipped.
Propagate_skip_chunk ==
  IF call.site = "chunk"
    THEN /\ i' = i + 1
         /\ pc' = "loop"
         /\ UNCHANGED <<chunk_summaries, result, returned_at, error>>
    ELSE /\ pc' = "failed"
         /\ error' = "OracleError"
         /\ UNCHANGED <<chunk_summaries, i, result, returned_at>>

\* What the program does when the call in flight raises: no try statement
\* encloses a call, so the exception leaves the top-level call.
Propagate ==
  /\ pc' = "failed"
  /\ error' = "OracleError"
  /\ UNCHANGED <<chunk_summaries, i, result, returned_at>>

\* The summarizer raises on the call in flight.
OracleRaise ==
  /\ pc = "calling"
  /\ Finish(FALSE, <<>>)
  /\ Propagate
  /\ UNCHANGED <<args, frame, text_chunks, ncalls, depth>>

Next ==
  \/ Enter_summarize_in_chunks
  \/ Enter_summarize_text
  \/ NextChunk
  \/ Combine_summarize_in_chunks
  \/ Combine_summarize_text
  \/ OracleReturn
  \/ OracleRaise

Spec == Init /\ [][Next]_vars

\* The program is sequential: a step that can be taken is taken.
FairSpec == Spec /\ WF_vars(Next)

Terminated == pc \in {"done", "failed"}

TypeOK ==
  /\ pc \in {"enter", "loop", "calling", "done", "failed"}
  /\ ncalls \in 0..(MaxCalls + 1)
  /\ Len(calls) <= MaxCalls
  /\ error \in {"none", "ValueError", "OracleError", "RecursionError"}

\* ------------------------------------------------- vocabulary of the claims
\* Empty or whitespace-only.
Blank(s) == \A j \in 1..Len(s) : s[j] = " "

RECURSIVE TrimLeft(_)
TrimLeft(s) == IF s # <<>> /\ s[1] = " " THEN TrimLeft(Tail(s)) ELSE s

RECURSIVE TrimRight(_)
TrimRight(s) ==
  IF s # <<>> /\ s[Len(s)] = " " THEN TrimRight(SubSeq(s, 1, Len(s) - 1)) ELSE s

\* The text without its leading and trailing whitespace.
Trim(s) == TrimRight(TrimLeft(s))

\* The least q with q * c >= n, for c >= 1.
CeilDiv(n, c) == CHOOSE q \in 0..n : q * c >= n /\ (q = 0 \/ (q - 1) * c < n)

RECURSIVE Concat(_)
Concat(parts) == IF parts = <<>> THEN <<>> ELSE parts[1] \o Concat(Tail(parts))

Entry_A == args.fn = "summarize_in_chunks"
Entry_B == args.fn = "summarize_text"

\* ------------------------------------------------------------------ claims
\* C1: every oracle call, at every call site and recursion level and for
\* every pair of integers default_max / min_length, is made with a max_length
\* such that min_length <= max_length <= default_max.  The code breaks it
\* when default_max < min_length: min(default_max, max(words, min_length))
\* is then default_max, below min_length.
C1_MaxLengthWithinBounds ==
  pc = "calling" =>
    /\ call.min_length <= call.max_length
    /\ call.max_length <= call.default_max

\* C2: no oracle call is ever made with an empty or whitespace-only text.
\* The code breaks it at the final call of summarize_in_chunks, which is made
\* on the joined summaries without a check.
C2_NeverCalledOnBlank ==
  pc = "calling" => ~Blank(call.text)

\* C3: every run of summarize_in_chunks, with chunk_size >= 1 and an oracle
\* whose outputs have at most default_max_length words, comes to an end of
\* the reduction's own making: a summary is returned, or the run fails on an
\* error of the oracle or of the arguments.  The code breaks it: nothing
\* makes the joined summaries shrink and line 99 recurses on them with no
\* bound, so the run goes on until the interpreter's stack is full and ends
\* with RecursionError.
C3_Terminates ==
  (/\ Entry_A
   /\ args.chunk_size >= 1
   /\ \A out \in Outputs : word_count(out) <= args.default_max_length)
  => <>(\/ pc = "done"
        \/ pc = "failed" /\ error \in {"OracleError", "ValueError"})

\* The chunks one pass over `text` hands to the oracle: its slices, trimmed,
\* without those that are whitespace-only.
PassChunks(text, chunk_size) ==
  LET slices == split_chunks(Trim(text), chunk_size)
  IN  SelectSeq([j \in 1..Len(slices) |-> Trim(slices[j])], LAMBDA c : c # <<>>)

\* The first pass of the run, and the summaries of its k chunks, joined.
FirstChunks == PassChunks(args.text, args.chunk_size)
FirstJoined ==
  join([j \in 1..Min2(Len(FirstChunks), Len(calls)) |-> calls[j].out])

\* C4, as stated: a text with len(text) <= chunk_size gets exactly one oracle
\* call, made on the text as it was passed in, whose output is returned.
C4_Original ==
  (Entry_A /\ Len(args.text) <= args.chunk_size /\ pc = "done") =>
    /\ ncalls = 1
    /\ Len(calls) = 1
    /\ calls[1].text = args.text
    /\ result = calls[1].out

\* C4, amended: when the trimmed text is not empty and has at most chunk_size
\* characters, summarize_in_chunks issues exactly one oracle call, on the
\* trimmed text, and returns that call's output.
C4_BaseCase ==
  (Entry_A /\ ~Blank(args.text) /\ Len(Trim(args.text)) <= args.chunk_size) =>
    /\ ncalls <= 1
    /\ Terminated =>
         /\ ncalls = 1
         /\ Len(calls) = 1
         /\ calls[1].text = Trim(args.text)
         /\ calls[1].site = "base"
         /\ pc = "done" => (result = calls[1].out /\ returned_at = "base")

C4_Witness ==
  /\ Entry_A
  /\ pc = "done"
  /\ args.text # Trim(args.text)
  /\ Len(args.text) > args.chunk_size
  /\ returned_at = "base"
  /\ ncalls = 1
  /\ result = <<"a">>

\* C5: an empty or whitespace-only input, whatever chunk_size and the length
\* parameters are, makes both entry points return the sentinel without any
\* oracle call.
C5_EmptyInputSentinel ==
  Blank(args.text) =>
    /\ ncalls = 0
    /\ pc \in {"enter", "done"}
    /\ pc = "done" =>
         /\ result = SENTINEL
         /\ returned_at = (IF Entry_A THEN "sentinel_in_chunks"
                                      ELSE "sentinel_text_empty")

C5_Witness ==
  /\ Entry_A
  /\ Blank(args.text)
  /\ args.text # <<>>
  /\ args.chunk_size < 0
  /\ args.min_length < 0
  /\ args.default_max_length = 0
  /\ pc = "done"
  /\ result = SENTINEL

\* C6, as stated: an input whose trimmed text is not empty never returns by a
\* sentinel branch, it returns the output of the last oracle call (taken here
\* for chunk_size >= 1 only, where it already fails).
C6_Original ==
  (~Blank(args.text) /\ args.chunk_size >= 1 /\ pc = "done") =>
    /\ returned_at \in {"base", "final"}
    /\ result = last.out

\* C6, amended: with chunk_size >= 1 and an input whose trimmed text is not
\* empty, the sentinel is returned only by a call of summarize_in_chunks that
\* was handed joined chunk summaries that are empty or whitespace-only (every
\* oracle output of the pass before was); any other return is the output of
\* the last oracle call.
C6_SentinelOnlyOnBlankText ==
  (~Blank(args.text) /\ args.chunk_size >= 1 /\ pc = "done") =>
    IF returned_at \in {"base", "final"}
      THEN /\ result = last.out
           /\ last.ok
           /\ last.site = returned_at
           /\ ~Blank(frame.text)
      ELSE /\ returned_at = "sentinel_in_chunks"
           /\ result = SENTINEL
           /\ Blank(frame.text)
           /\ ncalls >= 1
           /\ last.site = "chunk"
           /\ Blank(last.out)

C6_Witness ==
  /\ Entry_B
  /\ ~Blank(args.text)
  /\ args.chunk_size >= 1
  /\ pc = "done"
  /\ returned_at = "sentinel_in_chunks"
  /\ ncalls = 2

\* C7: an oracle call that raises ends the run at once: the failure reaches
\* the caller, nothing is returned, and no step (no retry, no other call)
\* follows a failure.
C7_FailFast ==
  [][/\ (pc = "calling" /\ ~last'.ok) =>
          /\ pc' = "failed"
          /\ error' = "OracleError"
          /\ result' = <<>>
          /\ returned_at' = "none"
          /\ ncalls' = ncalls
     /\ pc # "failed"]_vars

C7_Witness ==
  /\ pc = "failed"
  /\ error = "OracleError"
  /\ ~last.ok
  /\ chunk_summaries # <<>>
  /\ i < Len(text_chunks)
  /\ result = <<>>

\* C8, as stated: summarize_text on a text with k non-empty chunks whose
\* joined summaries have at most chunk_size characters issues k + 1 oracle
\* calls, the first k on the chunks (planned against
\* intermediate_summary_length, min_length 50), the last on the joined
\* summaries, and returns the last output.
C8_Original ==
  LET k == Len(FirstChunks)
  IN  (/\ Entry_B /\ ~Blank(args.text) /\ args.chunk_size >= 1 /\ pc = "done"
       /\ Len(calls) >= k /\ Len(FirstJoined) <= args.chunk_size) =>
        /\ ncalls = k + 1
        /\ Len(calls) = k + 1
        /\ \A j \in 1..k :
             /\ calls[j].text = FirstChunks[j]
             /\ calls[j].max_length =
                  determine_max_length(FirstChunks[j],
                                       args.intermediate_summary_length, 50)
             /\ calls[j].min_length = 50
        /\ calls[k + 1].text = FirstJoined
        /\ result = calls[k + 1].out

\* C8, amended: ... whose joined summaries are not whitespace-only and have
\* at most chunk_size characters issues k + 1 oracle calls, the first k on
\* the chunks, the last on the trimmed joined summaries, planned against
\* final_summary_length with min_length 50, and returns the last output;
\* when the joined summaries are empty or whitespace-only it issues the k
\* calls on the chunks and returns the sentinel.
C8_TwoPass ==
  LET k == Len(FirstChunks)
  IN  /\ (/\ Entry_B /\ ~Blank(args.text) /\ args.chunk_size >= 1 /\ pc = "done"
          /\ Len(calls) >= k /\ Len(FirstJoined) <= args.chunk_size
          /\ ~Blank(FirstJoined)) =>
           /\ ncalls = k + 1
           /\ Len(calls) = k + 1
           /\ \A j \in 1..k :
                /\ calls[j].text = FirstChunks[j]
                /\ calls[j].site = "chunk"
                /\ calls[j].max_length =
                     determine_max_length(FirstChunks[j],
                                          args.intermediate_summary_length, 50)
                /\ calls[j].min_length = 50
           /\ calls[k + 1].text = Trim(FirstJoined)
           /\ calls[k + 1].site = "base"
           /\ calls[k + 1].max_length =
                determine_max_length(Trim(FirstJoined), args.final_summary_length, 50)
           /\ calls[k + 1].min_length = 50
           /\ result = calls[k + 1].out
      /\ (/\ Entry_B /\ ~Blank(args.text) /\ args.chunk_size >= 1 /\ pc = "done"
          /\ Len(calls) >= k /\ Blank(FirstJoined)) =>
           /\ ncalls = k
           /\ Len(calls) = k
           /\ \A j \in 1..k :
                calls[j].text = FirstChunks[j] /\ calls[j].site = "chunk"
           /\ returned_at = "sentinel_in_chunks"
           /\ result = SENTINEL

C8_Witness ==
  /\ Entry_B
  /\ args.chunk_size >= 1
  /\ args.intermediate_summary_length # args.final_summary_length
  /\ pc = "done"
  /\ Len(FirstChunks) = 2
  /\ Len(calls) = 3
  /\ Len(FirstJoined) <= args.chunk_size
  /\ calls[3].text # FirstJoined
  /\ result = calls[3].out

\* C9: summarize_in_chunks on a trimmed text longer than chunk_size, with k
\* non-empty chunks whose joined summaries have at most chunk_size
\* characters, issues k + 1 oracle calls: k on the chunks, then one on the
\* joined summaries with max_length planned from them, whose output it
\* returns.
C9_ChunkedFinalPass ==
  LET k == Len(FirstChunks)
  IN  (/\ Entry_A /\ Len(Trim(args.text)) > args.chunk_size /\ pc = "done"
       /\ Len(calls) >= k /\ Len(FirstJoined) <= args.chunk_size) =>
        /\ ncalls = k + 1
        /\ Len(calls) = k + 1
        /\ \A j \in 1..k :
             /\ calls[j].text = FirstChunks[j]
             /\ calls[j].site = "chunk"
             /\ calls[j].max_length =
                  determine_max_length(FirstChunks[j], args.default_max_length,
                                       args.min_length)
             /\ calls[j].min_length = args.min_length
        /\ calls[k + 1].text = FirstJoined
        /\ calls[k + 1].site = "final"
        /\ calls[k + 1].max_length =
             determine_max_length(FirstJoined, args.default_max_length,
                                  args.min_length)
        /\ calls[k + 1].min_length = args.min_length
        /\ result = calls[k + 1].out
        /\ returned_at = "final"

C9_Witness ==
  /\ Entry_A
  /\ args.chunk_size = 2
  /\ Len(Trim(args.text)) = 3
  /\ pc = "done"
  /\ ncalls = 3
  /\ returned_at = "final"
  /\ ~Blank(last.text)
  /\ result = <<"a">>

\* The state is inside a chunking pass, or at its end.
InPass == pc = "loop" \/ (pc = "calling" /\ call.site = "chunk")

\* Every oracle call finished so far was made by the pass the state is in.
FirstPass == Len(calls) = Len(chunk_summaries) /\ ncalls <= MaxCalls

\* C10, as stated: the chunks one pass hands to the oracle are
\* ceil(len(text)/chunk_size) in number, each of exactly chunk_size
\* characters but the last, without overlap and in order (one chunk, the
\* text, when it fits).
C10_Original ==
  (/\ pc = "loop" /\ i > Len(text_chunks) /\ FirstPass
   /\ frame.chunk_size >= 1) =>
    /\ Len(calls) = CeilDiv(Len(frame.text), frame.chunk_size)
    /\ \A j \in 1..(Len(calls) - 1) : Len(calls[j].text) = frame.chunk_size
    /\ Concat([j \in 1..Len(calls) |-> calls[j].text]) = frame.text

\* C10, amended: one pass cuts the trimmed text into ceil(len/chunk_size)
\* slices, each of exactly chunk_size characters but the last, without
\* overlap and in order (one slice, the text, when it fits); every slice is
\* trimmed before it is handed to the oracle and a whitespace-only slice is
\* not handed over, so the oracle gets the trimmed non-blank slices in order.
C10_SlicesAndChunks ==
  (InPass /\ frame.chunk_size >= 1) =>
    LET n == Len(frame.text)
        m == Len(text_chunks)
        done == IF pc = "calling" THEN i ELSE i - 1
    IN  /\ m = CeilDiv(n, frame.chunk_size)
        /\ \A j \in 1..(m - 1) : Len(text_chunks[j]) = frame.chunk_size
        /\ m >= 1 => Len(text_chunks[m]) \in 1..frame.chunk_size
        /\ Concat(text_chunks) = frame.text
        /\ n <= frame.chunk_size => text_chunks = <<frame.text>>
        /\ pc = "calling" => call.text = Trim(text_chunks[i]) /\ call.text # <<>>
        /\ Len(chunk_summaries) =
             Cardinality({j \in 1..(i - 1) : ~Blank(text_chunks[j])})
        /\ (FirstPass /\ pc = "loop") =>
             [j \in 1..Len(calls) |-> calls[j].text] =
               SelectSeq([j \in 1..(i - 1) |-> Trim(text_chunks[j])],
                         LAMBDA c : c # <<>>)

C10_Witness ==
  /\ pc = "loop"
  /\ i > Len(text_chunks)
  /\ FirstPass
  /\ frame.chunk_size = 1
  /\ Len(text_chunks) = 3
  /\ Len(calls) = 2
  /\ calls[1].text = <<"a">>
  /\ calls[2].text = <<"b">>

\* The oracle calls of the pass the state is in, finished so far (the log
\* holds them all while ncalls <= MaxCalls).
PassCalls ==
  SubSeq(calls, Len(calls) - Len(chunk_summaries) + 1, Len(calls))

PassEnd == pc = "loop" /\ i > Len(text_chunks) /\ ncalls <= MaxCalls

\* `text` is the chunks in order, with nothing but whitespace before, between
\* and after them: no other character is missing, none is in two chunks.
RECURSIVE Covers(_, _)
Covers(text, chunks) ==
  IF chunks = <<>> THEN Blank(text)
  ELSE \E p \in 0..Len(text) :
         /\ Blank(SubSeq(text, 1, p))
         /\ p + Len(chunks[1]) <= Len(text)
         /\ SubSeq(text, p + 1, p + Len(chunks[1])) = chunks[1]
         /\ Covers(SubSeq(text, p + Len(chunks[1]) + 1, Len(text)), Tail(chunks))

\* C11, as stated: the chunks handed to the oracle, concatenated in order,
\* are the text without its whitespace-only slices.
C11_Original ==
  (PassEnd /\ frame.chunk_size >= 1) =>
    Concat([j \in 1..Len(PassCalls) |-> PassCalls[j].text]) =
      Concat(SelectSeq(text_chunks, LAMBDA c : ~Blank(c)))

\* C11, amended: the chunks handed to the oracle are, in order, disjoint
\* pieces of the trimmed text, and what lies before, between and after them
\* is whitespace only: the whitespace-only slices, and the leading and
\* trailing whitespace of the other slices.
C11_CoversUpToWhitespace ==
  (PassEnd /\ frame.chunk_size >= 1) =>
    /\ Covers(frame.text, [j \in 1..Len(PassCalls) |-> PassCalls[j].text])
    /\ \A j \in 1..Len(PassCalls) : ~Blank(PassCalls[j].text)

C11_Witness ==
  /\ PassEnd
  /\ frame.chunk_size = 2
  /\ frame.text = <<"a", " ", "b">>
  /\ Len(PassCalls) = 2
  /\ PassCalls[1].text = <<"a">>
  /\ PassCalls[2].text = <<"b">>

\* C13, as stated: a text with fewer words than default_max gets its word
\* count as max_length, whatever min_length is.
C13_Original ==
  (pc = "calling" /\ word_count(call.text) < call.default_max)
    => call.max_length = word_count(call.text)

\* C13, amended: a text with fewer words than default_max gets its word count
\* as max_length only when that count is at least min_length; with fewer words
\* than min_length it gets the smaller of min_length and default_max, which
\* is more than its number of words.
C13_WordCountOrFloor ==
  (pc = "calling" /\ word_count(call.text) < call.default_max) =>
    /\ word_count(call.text) >= call.min_length
         => call.max_length = word_count(call.text)
    /\ word_count(call.text) < call.min_length
         => /\ call.max_length > word_count(call.text)
            /\ call.max_length \in {call.min_length, call.default_max}
            /\ call.max_length <= call.min_length
            /\ call.max_length <= call.default_max

C13_Witness ==
  /\ pc = "calling"
  /\ word_count(call.text) = 1
  /\ call.min_length = MIN_LENGTH_50
  /\ call.default_max = 60
  /\ call.max_length = MIN_LENGTH_50

\* The parts in order with one space between neighbours.
RECURSIVE SpaceJoined(_)
SpaceJoined(parts) ==
  IF parts = <<>> THEN <<>>
  ELSE IF Len(parts) = 1 THEN parts[1]
  ELSE SpaceJoined(SubSeq(parts, 1, Len(parts) - 1))
         \o <<" ">> \o parts[Len(parts)]

PassOver == pc = "loop" /\ i > Len(text_chunks)

\* C14: when a pass deep in the recursion (the next call would be the last
\* the stack has room for) ends with joined summaries still longer than
\* chunk_size, the reduction stops there and fails with
\* ReductionDidNotConverge instead of recursing again; no run ends with
\* another failure of the recursion.  The code breaks it: it has no depth
\* counter, recurses again, and the run ends with the interpreter's
\* RecursionError.
C14_DepthBounded ==
  /\ [](error # "RecursionError")
  /\ [][(/\ PassOver
          /\ frame.fn = "summarize_in_chunks"
          /\ depth + 1 >= MaxDepth
          /\ Len(SpaceJoined(chunk_summaries)) > frame.chunk_size)
        => (pc' = "failed" /\ error' = "ReductionDidNotConverge")]_vars

\* The slices before position k that are not whitespace-only, trimmed.
ChunksBefore(k) ==
  LET kept == SelectSeq(SubSeq(text_chunks, 1, k - 1), LAMBDA c : ~Blank(c))
  IN  [j \in 1..Len(kept) |-> Trim(kept[j])]

\* C15: in every pass (each level of summarize_in_chunks, and the pass of
\* summarize_text) the per-chunk calls are made one at a time in the order of
\* the slices, each summary is kept at its chunk's place, and the step after
\* the pass gets the summaries joined in that order with single spaces: the
\* recursive call (same chunk_size, default_max_length and min_length) when
\* the joined text is longer than chunk_size, else the final call; from
\* summarize_text, summarize_in_chunks with the same chunk_size.
C15_OrderedHandover ==
  /\ []((InPass /\ ncalls <= MaxCalls) =>
          /\ [j \in 1..Len(PassCalls) |-> PassCalls[j].text] = ChunksBefore(i)
          /\ [j \in 1..Len(PassCalls) |-> PassCalls[j].out] = chunk_summaries
          /\ \A j \in 1..Len(PassCalls) :
               PassCalls[j].site = "chunk" /\ PassCalls[j].ok
          /\ pc = "calling" =>
               /\ i <= Len(text_chunks)
               /\ call.text = Trim(text_chunks[i]))
  /\ [][/\ (InPass /\ InPass') => (frame' = frame /\ i' \in {i, i + 1})
        /\ (PassOver /\ pc' = "enter") =>
             /\ frame'.fn = "summarize_in_chunks"
             /\ frame'.text = SpaceJoined(chunk_summaries)
             /\ frame'.chunk_size = frame.chunk_size
             /\ frame.fn = "summarize_in_chunks" =>
                  /\ Len(frame'.text) > frame.chunk_size
                  /\ frame'.default_max_length = frame.default_max_length
                  /\ frame'.min_length = frame.min_length
        /\ (PassOver /\ pc' = "calling") =>
             /\ frame.fn = "summarize_in_chunks"
             /\ call'.site = "final"
             /\ call'.text = SpaceJoined(chunk_summaries)
             /\ Len(call'.text) <= frame.chunk_size
        /\ (PassOver /\ frame.fn = "summarize_in_chunks")
             => pc' \in {"enter", "calling"}]_vars

C15_Witness ==
  /\ pc = "enter"
  /\ depth = 1
  /\ frame.chunk_size = 1
  /\ frame.text = <<"a", " ", "a">>
  /\ Len(calls) = 2
  /\ calls[1].out = <<"a">>
  /\ calls[2].out = <<"a">>

\* C16: with chunk_size >= 1 every text given to the oracle, whether the
\* base-case text, a chunk or the joined summaries of the final call, at any
\* depth and for any oracle outputs, has at most chunk_size characters.
C16_CallWithinChunkSize ==
  (pc = "calling" /\ args.chunk_size >= 1) =>
    /\ frame.chunk_size = args.chunk_size
    /\ Len(call.text) <= args.chunk_size

C16_Witness ==
  /\ pc = "calling"
  /\ call.site = "final"
  /\ depth = 1
  /\ args.chunk_size = 2
  /\ Len(call.text) = 2

\* C17: with chunk_size >= 1, a pass of summarize_text over a text that is
\* not whitespace-only has a first slice that is not whitespace-only, makes
\* at least one per-chunk call and never returns the sentinel of line 141; a
\* pass of summarize_in_chunks (its trimmed text is longer than chunk_size)
\* has at least two slices, the first and the last not whitespace-only, and
\* makes at least two per-chunk calls.
C17_PassHasCalls ==
  args.chunk_size >= 1 =>
    /\ returned_at # "sentinel_text_no_summaries"
    /\ pc = "loop" =>
         /\ ~Blank(frame.text)
         /\ text_chunks # <<>>
         /\ ~Blank(text_chunks[1])
         /\ ~Blank(text_chunks[Len(text_chunks)])
         /\ i > 1 => Len(chunk_summaries) >= 1
         /\ frame.fn = "summarize_in_chunks" =>
              /\ Len(frame.text) > frame.chunk_size
              /\ Len(text_chunks) >= 2
              /\ i > Len(text_chunks) => Len(chunk_summaries) >= 2

C17_Witness ==
  /\ Entry_B
  /\ frame.fn = "summarize_text"
  /\ args.chunk_size = 1
  /\ PassOver
  /\ Len(text_chunks) = 3
  /\ Blank(text_chunks[2])
  /\ Len(chunk_summaries) = 2

====
